---- MODULE Spec2Model ----
(***************************************************************************)
(* Marketplace ledger: the pay-for-job and deposit request handlers of     *)
(* src/routes/jobs.js and src/routes/balances.js, run concurrently against *)
(* one shared store (Profiles, Contracts, Jobs), and the read handlers of  *)
(* the contracts, jobs and admin routes next to them.                      *)
(*                                                                         *)
(* A request is a chain of asynchronous steps; every `await` on the store  *)
(* is one atomic action, followed by the synchronous code up to the next   *)
(* await.  Between two steps of one request any step of another request    *)
(* may run.  Model instances (req.profile, job, job.Contract.Contractor)   *)
(* are snapshots taken when the row was read; instance.update writes the   *)
(* absolute value computed from the snapshot.                              *)
(*                                                                         *)
(* Money is counted in whole units; amount > totalToPay * 0.25 is          *)
(* 4 * amount > totalToPay.                                                *)
(*                                                                         *)
(* Before any request is handled startServer (server.js) syncs the store   *)
(* and binds the port; the handlers run once the server is listening.      *)
(***************************************************************************)
EXTENDS Integers, Sequences, FiniteSets, TLC

\* ---------------------------------------------------------------- bounds
MaxRequests == 2         \* requests that arrive in one behaviour, all of which may overlap
MaxFaults == 1           \* store operations that fail in one behaviour
MaxPorts == 5            \* ports from PORT on that another process may hold

\* ------------------------------------------------------------- server.js
PORT == 3001             \* process.env.PORT || 3001
maxAttempts == 10        \* let maxAttempts = 10

\* Requests are numbered in the order they arrive.
Reqs == 1..MaxRequests

\* ------------------------------------------------------------- sentinels
NoHeader == 0            \* req.get('profile_id') is undefined
NoAmount == 99           \* req.body.amount is undefined
NoDate == 0 - 1          \* paymentDate: null
SeedDate == 0            \* the paymentDate of the jobs seeded as paid
NoBalance == 0 - 1       \* a response that carries no balance
NoLimit == 0 - 1         \* req.query.limit is undefined

NoProfile == [id |-> 0, type |-> "none", balance |-> 0]
NoJob == [id |-> 0, price |-> 0, ContractorId |-> 0, ContractorBalance |-> 0]
NoJobBody == [id |-> 0, price |-> 0, paid |-> FALSE, paymentDate |-> NoDate, ContractId |-> 0]
NoContract == [id |-> 0, status |-> "none", ClientId |-> 0, ContractorId |-> 0]
NoBest == [profession |-> "none", totalEarned |-> 0]
NoReq ==
  [kind |-> "none", profile_id |-> NoHeader, job_id |-> 0, userId |-> 0, amount |-> NoAmount,
   id |-> 0, start |-> NoDate, end |-> NoDate, limit |-> NoLimit]

\* ------------------------------------------------------------ the store
\* Profile rows: two clients (1, 2), two contractors (3, 4) and a
\* contractor without any contract (5).
SeedProfiles ==
  (1 :> [type |-> "client", profession |-> "Wizard", balance |-> 8]) @@
  (2 :> [type |-> "client", profession |-> "Hacker", balance |-> 2]) @@
  (3 :> [type |-> "contractor", profession |-> "Programmer", balance |-> 1]) @@
  (4 :> [type |-> "contractor", profession |-> "Musician", balance |-> 0]) @@
  (5 :> [type |-> "contractor", profession |-> "Fighter", balance |-> 0])

\* The Contract rows with the two references of the first one exchanged.
SeedContractsExchanged ==
  (1 :> [status |-> "in_progress", ClientId |-> 3, ContractorId |-> 1]) @@
  (2 :> [status |-> "in_progress", ClientId |-> 2, ContractorId |-> 3]) @@
  (3 :> [status |-> "new", ClientId |-> 1, ContractorId |-> 4]) @@
  (4 :> [status |-> "terminated", ClientId |-> 1, ContractorId |-> 4])

\* Contract rows: statuses in_progress, new and terminated.
SeedContracts ==
  (1 :> [status |-> "in_progress", ClientId |-> 1, ContractorId |-> 3]) @@
  (2 :> [status |-> "in_progress", ClientId |-> 2, ContractorId |-> 3]) @@
  (3 :> [status |-> "new", ClientId |-> 1, ContractorId |-> 4]) @@
  (4 :> [status |-> "terminated", ClientId |-> 1, ContractorId |-> 4])

\* Job rows: unpaid jobs under in_progress and new contracts, a paid job
\* under the terminated contract.
SeedJobs ==
  (1 :> [price |-> 4, paid |-> FALSE, paymentDate |-> NoDate, ContractId |-> 1]) @@
  (2 :> [price |-> 8, paid |-> FALSE, paymentDate |-> NoDate, ContractId |-> 1]) @@
  (3 :> [price |-> 2, paid |-> FALSE, paymentDate |-> NoDate, ContractId |-> 2]) @@
  (4 :> [price |-> 4, paid |-> FALSE, paymentDate |-> NoDate, ContractId |-> 3]) @@
  (5 :> [price |-> 4, paid |-> TRUE, paymentDate |-> SeedDate, ContractId |-> 4])

\* ------------------------------------------------------- request inputs
UnknownId == 9           \* an id that names no row
AmountInputs == {NoAmount, 0 - 1, 0, 3, 4}

PayReq(h, j) ==
  [NoReq EXCEPT !.kind = "pay", !.profile_id = h, !.job_id = j]

DepositReq(h, u, a) ==
  [NoReq EXCEPT !.kind = "deposit", !.profile_id = h, !.userId = u, !.amount = a]

\* POST /jobs/:job_id/pay: client 1 on every kind of job id (its own two
\* jobs, another client's, one under a contract that is not in progress, an
\* unknown id); client 2 on its own job and on another client's; a
\* contractor on an existing and on an unknown job id; no header and an
\* unknown header.
PayInputs ==
  { PayReq(1, j) : j \in {1, 2, 3, 4, UnknownId} } \cup
  { PayReq(2, j) : j \in {1, 3} } \cup
  { PayReq(3, j) : j \in {1, UnknownId} } \cup
  { PayReq(h, 1) : h \in {NoHeader, UnknownId} }

\* POST /balances/deposit/:userId: client 1 to itself with every amount and
\* to an unknown id; client 2 to itself and, with a positive and a negative
\* amount, to client 1; a contractor with a missing and a positive amount;
\* no header and an unknown header.
DepositInputs ==
  { DepositReq(1, 1, a) : a \in AmountInputs } \cup
  { DepositReq(1, UnknownId, 3) } \cup
  { DepositReq(2, u, 3) : u \in {1, 2} } \cup
  { DepositReq(2, 1, 0 - 1) } \cup
  { DepositReq(3, 1, a) : a \in {NoAmount, 3} } \cup
  { DepositReq(h, 1, 3) : h \in {NoHeader, UnknownId} }

\* The GET endpoints mounted on the v1 router: /contracts/:id, /contracts,
\* /jobs/unpaid, /admin/best-profession and /admin/best-clients.
ReadEndpoints == {"contract", "contracts", "unpaid", "bestProfession", "bestClients"}

ReadReq(kind, h) ==
  [NoReq EXCEPT !.kind = kind, !.profile_id = h]

\* GET /contracts/:id
ContractReq(h, id) == [ReadReq("contract", h) EXCEPT !.id = id]

\* GET /admin/best-profession and /admin/best-clients with their query.
AdminReq(kind, h, start, end, limit) ==
  [ReadReq(kind, h) EXCEPT !.start = start, !.end = end, !.limit = limit]

\* Requests to every endpoint of the v1 router: each endpoint without a
\* profile_id header and with one that names no Profile; a pay and a deposit
\* of client 1 as the authenticated traffic next to them.
ApiInputs ==
  { PayReq(h, 1) : h \in {1, NoHeader, UnknownId} } \cup
  { DepositReq(h, 1, 3) : h \in {1, NoHeader, UnknownId} } \cup
  { ReadReq(k, h) : k \in ReadEndpoints, h \in {NoHeader, UnknownId} }

\* A date after every paymentDate a behaviour can write.
LastDate == 99

\* GET /contracts/:id: client 1 on its own contract, on another client's
\* and on an unknown id; contractor 3 on its own contract and on another
\* contractor's.
ContractInputs ==
  { ContractReq(1, id) : id \in {1, 2, UnknownId} } \cup
  { ContractReq(3, id) : id \in {1, 3} }

\* GET /contracts: a client with in_progress, new and terminated contracts,
\* a contractor, a contractor without contracts.  GET /jobs/unpaid: a
\* client, a contractor with in_progress contracts, a contractor with a
\* new and a terminated contract.
ListInputs ==
  { ReadReq("contracts", h) : h \in {1, 3, 5} } \cup
  { ReadReq("unpaid", h) : h \in {1, 3, 4} }

\* GET /admin/best-profession and /admin/best-clients: without a date,
\* over every date, with and without a limit.
AdminInputs ==
  { AdminReq("bestProfession", 1, NoDate, LastDate, NoLimit),
    AdminReq("bestProfession", 1, SeedDate, LastDate, NoLimit),
    AdminReq("bestClients", 1, SeedDate, LastDate, NoLimit),
    AdminReq("bestClients", 1, SeedDate, LastDate, 1) }

\* Authenticated requests to every endpoint: the reads, and two payments
\* and a deposit as the traffic that changes the store under them.
ReadInputs ==
  { PayReq(1, 1), PayReq(2, 3), DepositReq(1, 1, 3) } \cup
  ContractInputs \cup ListInputs \cup AdminInputs

\* The reports under payments: best-profession and best-clients without a
\* date, over every date and over the dates after the seed's, best-clients
\* with and without a limit; three payments as the traffic that changes
\* what they report.
ReportInputs ==
  { PayReq(1, 1), PayReq(1, 2), PayReq(2, 3) } \cup
  { AdminReq("bestProfession", 1, NoDate, LastDate, NoLimit),
    AdminReq("bestProfession", 1, SeedDate, LastDate, NoLimit),
    AdminReq("bestProfession", 1, SeedDate + 1, LastDate, NoLimit),
    AdminReq("bestClients", 1, SeedDate, NoDate, NoLimit),
    AdminReq("bestClients", 1, SeedDate, LastDate, NoLimit),
    AdminReq("bestClients", 1, SeedDate, LastDate, 1),
    AdminReq("bestClients", 1, SeedDate + 1, LastDate, NoLimit) }

VARIABLES
  Profiles,     \* the Profile table: id -> row
  Contracts,    \* the Contract table: id -> row
  Jobs,         \* the Job table: id -> row
  pc,           \* per request: the await it is suspended at
  req,          \* per request: headers, params and body
  profile,      \* per request: req.profile, the instance getProfile loaded
  job,          \* per request: the job instance (with Contract.Contractor) findOne loaded
  res,          \* per request: the response sent
  boot,         \* startServer: where it stands, currentPort, attempts, server
  inUse         \* the ports another process is listening on

vars == <<Profiles, Contracts, Jobs, pc, req, profile, job, res, boot, inUse>>

\* The requests that have arrived, those being handled, and those a store
\* failure has hit (a request meets at most one: it ends the request).
Arrived == { r \in Reqs : pc[r] # "idle" }
InFlight == { r \in Reqs : pc[r] \notin {"idle", "done", "hung"} }
Faulted == { r \in Reqs : pc[r] = "hung" \/ res[r].status = 500 }

\* The clock: request r arrives at ArrivalDate(r), and between two arrivals
\* there is an instant for every transaction that can commit.
ArrivalDate(r) == (MaxRequests + 1) * r

\* The latest paymentDate in the store.
LatestDate ==
  CHOOSE d \in { Jobs[j].paymentDate : j \in DOMAIN Jobs } :
    \A j \in DOMAIN Jobs : Jobs[j].paymentDate <= d

\* What new Date() reads: time advances as requests arrive and from one
\* reading to the next, so that no two transactions read the same instant.
Now ==
  IF LatestDate < ArrivalDate(Cardinality(Arrived))
    THEN ArrivalDate(Cardinality(Arrived))
    ELSE LatestDate + 1

\* ------------------------------------------------------------ responses
Resp(status, error) ==
  [status |-> status, error |-> error, balance |-> NoBalance, job |-> NoJobBody,
   contract |-> NoContract, contracts |-> {}, jobs |-> {}, best |-> NoBest, clients |-> <<>>]

NoRes == Resp(0, "")

RespBalance(b) == [Resp(200, "") EXCEPT !.balance = b]

RespJob(j) == [Resp(200, "") EXCEPT !.job = j]

\* res.json(contract), res.json(contracts), res.json(jobs): lists come in
\* no stated order and are kept as sets of rows.
RespContract(c) == [Resp(200, "") EXCEPT !.contract = c]
RespContracts(cs) == [Resp(200, "") EXCEPT !.contracts = cs]
RespJobs(js) == [Resp(200, "") EXCEPT !.jobs = js]
\* res.json({ profession, totalEarned }) and res.json(clients).
RespBest(profession, totalEarned) ==
  [Resp(200, "") EXCEPT !.best = [profession |-> profession, totalEarned |-> totalEarned]]
RespClients(clients) == [Resp(200, "") EXCEPT !.clients = clients]

\* ------------------------------------------------- middleware/getProfile
\* Profile.findOne({ where: { id } }): a model instance, i.e. a copy of the
\* row as it is at the time of the read, or null.
ProfileFindOne(P, id) ==
  IF id \in DOMAIN P
    THEN [id |-> id, type |-> P[id].type, balance |-> P[id].balance]
    ELSE NoProfile

\* getProfile without the Profile lookup: any header passes.
GetProfileNoLookup(P, profile_id) ==
  IF profile_id = NoHeader
    THEN Resp(401, "Missing profile_id in headers")
    ELSE NoRes

\* getProfile: the response it sends, or NoRes when it calls next().
GetProfile(P, profile_id) ==
  IF profile_id = NoHeader
    THEN Resp(401, "Missing profile_id in headers")
    ELSE IF ProfileFindOne(P, profile_id) = NoProfile
      THEN Resp(401, "Unauthorized: profile not found")
      ELSE NoRes

\* ------------------------------------------------------- routes/jobs.js
\* The role check that opens the pay handler.
PayAuthorize(prof) ==
  IF prof.type # "client"
    THEN Resp(403, "Only clients can pay for jobs")
    ELSE NoRes

\* The lookup without the ClientId condition on the Contract.
JobFindOneAnyClient(J, C, P, clientId, job_id) ==
  IF /\ job_id \in DOMAIN J
     /\ J[job_id].paid = FALSE
     /\ C[J[job_id].ContractId].status = "in_progress"
    THEN [id |-> job_id,
          price |-> J[job_id].price,
          ContractorId |-> C[J[job_id].ContractId].ContractorId,
          ContractorBalance |-> P[C[J[job_id].ContractId].ContractorId].balance]
    ELSE NoJob

\* The lookup without the status condition on the Contract.
JobFindOneAnyStatus(J, C, P, clientId, job_id) ==
  IF /\ job_id \in DOMAIN J
     /\ J[job_id].paid = FALSE
     /\ C[J[job_id].ContractId].ClientId = clientId
    THEN [id |-> job_id,
          price |-> J[job_id].price,
          ContractorId |-> C[J[job_id].ContractId].ContractorId,
          ContractorBalance |-> P[C[J[job_id].ContractId].ContractorId].balance]
    ELSE NoJob

\* The lookup without the paid = false condition on the Job.
JobFindOnePaidToo(J, C, P, clientId, job_id) ==
  IF /\ job_id \in DOMAIN J
     /\ C[J[job_id].ContractId].ClientId = clientId
     /\ C[J[job_id].ContractId].status = "in_progress"
    THEN [id |-> job_id,
          price |-> J[job_id].price,
          ContractorId |-> C[J[job_id].ContractId].ContractorId,
          ContractorBalance |-> P[C[J[job_id].ContractId].ContractorId].balance]
    ELSE NoJob

\* Job.findOne joined with Contract (ClientId, status) and its Contractor,
\* where id = job_id and paid = false.
JobFindOnePayable(J, C, P, clientId, job_id) ==
  IF /\ job_id \in DOMAIN J
     /\ J[job_id].paid = FALSE
     /\ C[J[job_id].ContractId].ClientId = clientId
     /\ C[J[job_id].ContractId].status = "in_progress"
    THEN [id |-> job_id,
          price |-> J[job_id].price,
          ContractorId |-> C[J[job_id].ContractId].ContractorId,
          ContractorBalance |-> P[C[J[job_id].ContractId].ContractorId].balance]
    ELSE NoJob

\* The balance check with the price left out of the comparison.
InsufficientBalanceNoPrice(balance, price) == balance < 0

\* profile.balance < job.price
InsufficientBalance(balance, price) == balance < price

\* The checks between the job lookup and the transaction.
PayCheck(prof, j) ==
  IF j = NoJob
    THEN Resp(404, "Job not found or not available for payment")
    ELSE IF InsufficientBalance(prof.balance, j.price)
      THEN Resp(400, "Insufficient balance")
      ELSE NoRes

\* The three updates of the transaction, in order.
DebitPayer(P, prof, j) ==
  [P EXCEPT ![prof.id].balance = prof.balance - j.price]

CreditContractor(P, j) ==
  [P EXCEPT ![j.ContractorId].balance = j.ContractorBalance + j.price]

\* The update of the job issued for every job of its contract.
MarkPaidWholeContract(J, j, now) ==
  [i \in DOMAIN J |->
     IF J[i].ContractId = J[j.id].ContractId
       THEN [J[i] EXCEPT !.paid = TRUE, !.paymentDate = now]
       ELSE J[i]]

MarkPaid(J, j, now) ==
  [J EXCEPT ![j.id].paid = TRUE, ![j.id].paymentDate = now]

\* The three updates issued without a transaction: the updates before the
\* one that throws stay in the store.
PayTransactionNoRollback(P, J, prof, j, now, failAt) ==
  [committed |-> failAt = 0,
   Profiles |-> IF failAt = 1 THEN P
                ELSE IF failAt = 2 THEN DebitPayer(P, prof, j)
                ELSE CreditContractor(DebitPayer(P, prof, j), j),
   Jobs |-> IF failAt = 0 THEN MarkPaid(J, j, now) ELSE J]

\* sequelize.transaction(async t => ...): failAt = 0 commits the three
\* updates; failAt = k means the k-th update throws, and the managed
\* transaction rolls back.
PayTransaction(P, J, prof, j, now, failAt) ==
  IF failAt = 0
    THEN [committed |-> TRUE,
          Profiles |-> CreditContractor(DebitPayer(P, prof, j), j),
          Jobs |-> MarkPaid(J, j, now)]
    ELSE [committed |-> FALSE, Profiles |-> P, Jobs |-> J]

\* Job.findByPk(job_id), serialised into the response body.
JobFindByPk(J, job_id) ==
  IF job_id \in DOMAIN J
    THEN [id |-> job_id, price |-> J[job_id].price, paid |-> J[job_id].paid,
          paymentDate |-> J[job_id].paymentDate, ContractId |-> J[job_id].ContractId]
    ELSE NoJobBody

\* --------------------------------------------------- routes/balances.js
\* The deposit checks with the role check moved before the amount checks.
DepositValidateRoleFirst(prof, userId, amount) ==
  IF prof.type # "client"
    THEN Resp(403, "Only clients can deposit money")
    ELSE IF amount = NoAmount \/ amount = 0
      THEN Resp(400, "Amount is required")
      ELSE IF amount < 0
        THEN Resp(400, "Amount cannot be negative")
        ELSE IF prof.id # userId
          THEN Resp(403, "You can only deposit to your own account")
          ELSE NoRes

\* The deposit checks without the own-account check.
DepositValidateAnyTarget(prof, userId, amount) ==
  IF amount = NoAmount \/ amount = 0
    THEN Resp(400, "Amount is required")
    ELSE IF amount < 0
      THEN Resp(400, "Amount cannot be negative")
      ELSE IF prof.type # "client"
        THEN Resp(403, "Only clients can deposit money")
        ELSE NoRes

\* The checks that open the deposit handler, before any store access.
DepositValidate(prof, userId, amount) ==
  IF amount = NoAmount \/ amount = 0
    THEN Resp(400, "Amount is required")
    ELSE IF amount < 0
      THEN Resp(400, "Amount cannot be negative")
      ELSE IF prof.type # "client"
        THEN Resp(403, "Only clients can deposit money")
        ELSE IF prof.id # userId
          THEN Resp(403, "You can only deposit to your own account")
          ELSE NoRes

\* Job.findAll joined with Contract (ClientId, status) where paid = false.
JobsToPay(J, C, clientId) ==
  { j \in DOMAIN J :
      /\ J[j].paid = FALSE
      /\ C[J[j].ContractId].ClientId = clientId
      /\ C[J[j].ContractId].status = "in_progress" }

RECURSIVE SumPrices(_, _)
SumPrices(J, S) ==
  IF S = {} THEN 0
  ELSE LET j == CHOOSE x \in S : TRUE
       IN J[j].price + SumPrices(J, S \ {j})

\* The sum taken over the unpaid in_progress jobs of every client.
TotalToPayAllClients(J, C, clientId) ==
  SumPrices(J, { j \in DOMAIN J : J[j].paid = FALSE /\ C[J[j].ContractId].status = "in_progress" })

TotalToPay(J, C, clientId) == SumPrices(J, JobsToPay(J, C, clientId))

\* The cap comparison with >= for >: the boundary amount is rejected.
ExceedsMaxDepositAtBoundary(amount, totalToPay) == 4 * amount >= totalToPay

\* amount > maxDeposit, with maxDeposit = totalToPay * 0.25.
ExceedsMaxDeposit(amount, totalToPay) == 4 * amount > totalToPay

DepositCheck(amount, totalToPay) ==
  IF ExceedsMaxDeposit(amount, totalToPay)
    THEN Resp(400, "Cannot deposit more than 25% of jobs to pay")
    ELSE NoRes

\* profile.update({ balance: profile.balance + amount }).
DepositBalance(prof, amount) == prof.balance + amount

\* -------------------------------------------------- routes/contracts.js
\* Contract.findOne({ where: { id } }): the row, or null.
ContractFindOne(C, id) ==
  IF id \in DOMAIN C
    THEN [id |-> id, status |-> C[id].status, ClientId |-> C[id].ClientId,
          ContractorId |-> C[id].ContractorId]
    ELSE NoContract

\* The access test without the comparison of ids.
HasAccessAlways(prof, contract) == TRUE

\* hasAccess: a client by ClientId, any other profile by ContractorId.
HasAccess(prof, contract) ==
  IF prof.type = "client"
    THEN contract.ClientId = prof.id
    ELSE contract.ContractorId = prof.id

\* GET /contracts/:id, after the findOne.
ContractById(C, prof, id) ==
  LET contract == ContractFindOne(C, id)
  IN IF contract = NoContract
       THEN Resp(404, "Contract not found")
       ELSE IF ~HasAccess(prof, contract)
         THEN Resp(403, "Access denied")
         ELSE RespContract(contract)

\* The contract list without the status filter.
ContractFindAllWithTerminated(C, prof) ==
  { ContractFindOne(C, c) : c \in
      { k \in DOMAIN C :
          IF prof.type = "client" THEN C[k].ClientId = prof.id
                                  ELSE C[k].ContractorId = prof.id } }

\* Contract.findAll({ where: { [ClientId | ContractorId]: profile.id,
\* status: { [Op.ne]: 'terminated' } } }).
ContractFindAll(C, prof) ==
  { ContractFindOne(C, c) : c \in
      { k \in DOMAIN C :
          /\ IF prof.type = "client" THEN C[k].ClientId = prof.id
                                     ELSE C[k].ContractorId = prof.id
          /\ C[k].status # "terminated" } }

\* ------------------------------------------- routes/jobs.js: GET /unpaid
\* The unpaid list without the filter on the status of the Contract.
JobFindAllUnpaidAnyStatus(J, C, prof) ==
  { JobFindByPk(J, j) : j \in
      { k \in DOMAIN J :
          /\ J[k].paid = FALSE
          /\ IF prof.type = "client" THEN C[J[k].ContractId].ClientId = prof.id
                                     ELSE C[J[k].ContractId].ContractorId = prof.id } }

\* Job.findAll({ include: Contract where { status: 'in_progress',
\* [ClientId | ContractorId]: profile.id }, where: { paid: false } }).
JobFindAllUnpaid(J, C, prof) ==
  { JobFindByPk(J, j) : j \in
      { k \in DOMAIN J :
          /\ J[k].paid = FALSE
          /\ C[J[k].ContractId].status = "in_progress"
          /\ IF prof.type = "client" THEN C[J[k].ContractId].ClientId = prof.id
                                     ELSE C[J[k].ContractId].ContractorId = prof.id } }

\* ------------------------------------------------------ routes/admin.js
\* if (!start || !end)
AdminValidate(start, end) ==
  IF start = NoDate \/ end = NoDate
    THEN Resp(400, "Start and end dates are required")
    ELSE NoRes

\* The period taken without its first instant.
PaidBetweenAfterStart(J, start, end) ==
  { j \in DOMAIN J :
      /\ J[j].paid
      /\ J[j].paymentDate # NoDate
      /\ start < J[j].paymentDate /\ J[j].paymentDate <= end }

\* where: { paid: true, paymentDate: { [Op.between]: [start, end] } }
PaidBetween(J, start, end) ==
  { j \in DOMAIN J :
      /\ J[j].paid
      /\ J[j].paymentDate # NoDate
      /\ start <= J[j].paymentDate /\ J[j].paymentDate <= end }

\* SUM(price) of the selected jobs grouped by the profession of the
\* Contract's Contractor.
EarnedBy(J, C, P, S, profession) ==
  SumPrices(J, { j \in S : P[C[J[j].ContractId].ContractorId].profession = profession })

\* SUM(price) of the selected jobs grouped by the Contract's Client.
PaidBy(J, C, S, clientId) ==
  SumPrices(J, { j \in S : C[J[j].ContractId].ClientId = clientId })

\* GET /admin/best-profession, after the findAll: the first group in
\* descending order of the sum (limit 1); among equal sums the store may
\* return any.
BestProfessionResults(J, C, P, start, end) ==
  LET S == PaidBetween(J, start, end)
      groups == { P[C[J[j].ContractId].ContractorId].profession : j \in S }
      first == { g \in groups :
                   \A h \in groups : EarnedBy(J, C, P, S, g) >= EarnedBy(J, C, P, S, h) }
  IN IF groups = {}
       THEN { Resp(404, "No data found for the specified period") }
       ELSE { RespBest(g, EarnedBy(J, C, P, S, g)) : g \in first }

\* The groups of best-clients in ascending order of the sum.
BestClientsResultsAscending(J, C, start, end, limit) ==
  LET S == PaidBetween(J, start, end)
      groups == { C[J[j].ContractId].ClientId : j \in S }
      n == Cardinality(groups)
      k == IF limit = NoLimit THEN (IF 2 < n THEN 2 ELSE n)
           ELSE (IF limit < n THEN limit ELSE n)
      orders == { s \in [1..n -> groups] :
                    /\ \A i, j \in 1..n : i # j => s[i] # s[j]
                    /\ \A i, j \in 1..n : i < j => PaidBy(J, C, S, s[i]) <= PaidBy(J, C, S, s[j]) }
  IN IF k = 0
       THEN { Resp(404, "No data found for the specified period") }
       ELSE { RespClients([i \in 1..k |-> [id |-> s[i], paid |-> PaidBy(J, C, S, s[i])]]) :
                s \in orders }

\* limit = 2 by default, parseInt(limit) otherwise.
LimitOf(limit) == IF limit = NoLimit THEN 2 ELSE limit

\* GET /admin/best-clients, after the findAll: the groups in descending
\* order of the sum, cut at the limit, mapped to { id, paid } (fullName is
\* left out: the rows of the model carry no names).
BestClientsResults(J, C, start, end, limit) ==
  LET S == PaidBetween(J, start, end)
      groups == { C[J[j].ContractId].ClientId : j \in S }
      n == Cardinality(groups)
      k == IF LimitOf(limit) < n THEN LimitOf(limit) ELSE n
      orders == { s \in [1..n -> groups] :
                    /\ \A i, j \in 1..n : i # j => s[i] # s[j]
                    /\ \A i, j \in 1..n : i < j => PaidBy(J, C, S, s[i]) >= PaidBy(J, C, S, s[j]) }
  IN IF k = 0
       THEN { Resp(404, "No data found for the specified period") }
       ELSE { RespClients([i \in 1..k |-> [id |-> s[i], paid |-> PaidBy(J, C, S, s[i])]]) :
                s \in orders }

\* ---------------------------------------------------------------- steps
\* Whether the store operation of a step may fail.
FaultChoices == IF Cardinality(Faulted) < MaxFaults THEN {FALSE, TRUE} ELSE {FALSE}
FailAtChoices == IF Cardinality(Faulted) < MaxFaults THEN 0..3 ELSE {0}

\* The store as seeded, and no request yet.
Seeded ==
  /\ Profiles = SeedProfiles
  /\ Contracts = SeedContracts
  /\ Jobs = SeedJobs
  /\ pc = [r \in Reqs |-> "idle"]
  /\ req = [r \in Reqs |-> NoReq]
  /\ profile = [r \in Reqs |-> NoProfile]
  /\ job = [r \in Reqs |-> NoJob]
  /\ res = [r \in Reqs |-> NoRes]

\* The server is up on the configured port, which nothing else holds.
Init ==
  /\ Seeded
  /\ boot = [pc |-> "started", currentPort |-> PORT, attempts |-> 0, server |-> "listening"]
  /\ inUse = {}

\* Handlers run while the server listens; they leave start-up as it ended.
Listening ==
  /\ boot.server = "listening"
  /\ UNCHANGED <<boot, inUse>>

\* The request ends: the response is sent and the instances are dropped.
Finish(r, response) ==
  /\ pc' = [pc EXCEPT ![r] = "done"]
  /\ res' = [res EXCEPT ![r] = response]
  /\ profile' = [profile EXCEPT ![r] = NoProfile]
  /\ job' = [job EXCEPT ![r] = NoJob]

\* A store read outside any try/catch rejects: the handler's promise is
\* rejected, nothing catches it and no response is ever sent.
Hang(r) ==
  /\ pc' = [pc EXCEPT ![r] = "hung"]
  /\ profile' = [profile EXCEPT ![r] = NoProfile]
  /\ job' = [job EXCEPT ![r] = NoJob]
  /\ UNCHANGED res

\* The synchronous checks that open the handler of each route.
HandlerValidate(q, prof) ==
  CASE q.kind = "pay" -> PayAuthorize(prof)
    [] q.kind = "deposit" -> DepositValidate(prof, q.userId, q.amount)
    [] q.kind \in {"bestProfession", "bestClients"} -> AdminValidate(q.start, q.end)
    [] OTHER -> NoRes

\* The first await of the handler of each route.
FirstAwait(kind) ==
  CASE kind = "pay" -> "findJob"
    [] kind = "deposit" -> "jobsToPay"
    [] kind = "contract" -> "findContract"
    [] kind = "contracts" -> "findContracts"
    [] kind = "unpaid" -> "findUnpaid"
    [] kind = "bestProfession" -> "bestProfession"
    [] kind = "bestClients" -> "bestClients"

\* A request drawn from inputs arrives and runs the getProfile mounted on
\* the v1 router, ahead of every route.
Arrives(r, inputs) ==
  /\ Listening
  /\ pc[r] = "idle"
  /\ \A k \in Reqs : k < r => pc[k] # "idle"
  /\ \E q \in inputs, fault \in FaultChoices :
       /\ req' = [req EXCEPT ![r] = q]
       /\ IF q.profile_id = NoHeader
            THEN /\ fault = FALSE
                 /\ Finish(r, GetProfile(Profiles, q.profile_id))
            ELSE IF fault
              THEN Hang(r)
              ELSE IF GetProfile(Profiles, q.profile_id) # NoRes
                THEN Finish(r, GetProfile(Profiles, q.profile_id))
                ELSE /\ pc' = [pc EXCEPT ![r] = "getProfile"]
                     /\ profile' = [profile EXCEPT ![r] = ProfileFindOne(Profiles, q.profile_id)]
                     /\ UNCHANGED <<job, res>>
  /\ UNCHANGED <<Profiles, Contracts, Jobs>>

\* A pay or deposit request arrives.
GetProfileRouter(r) == Arrives(r, PayInputs \cup DepositInputs)

\* A request to any endpoint arrives.
GetProfileRouterAnyEndpoint(r) == Arrives(r, ApiInputs)

\* An authenticated request to any endpoint arrives.
GetProfileRouterReads(r) == Arrives(r, ReadInputs)

\* A payment or a request for a report arrives.
GetProfileRouterReports(r) == Arrives(r, ReportInputs)

\* The getProfile of the route runs, then the handler up to its first await.
GetProfileRoute(r) ==
  /\ Listening
  /\ pc[r] = "getProfile"
  /\ \E fault \in FaultChoices :
       IF fault
         THEN Hang(r)
         ELSE IF GetProfile(Profiles, req[r].profile_id) # NoRes
           THEN Finish(r, GetProfile(Profiles, req[r].profile_id))
           ELSE LET prof == ProfileFindOne(Profiles, req[r].profile_id)
                    check == HandlerValidate(req[r], prof)
                IN IF check # NoRes
                     THEN Finish(r, check)
                     ELSE /\ pc' = [pc EXCEPT ![r] = FirstAwait(req[r].kind)]
                          /\ profile' = [profile EXCEPT ![r] = prof]
                          /\ UNCHANGED <<job, res>>
  /\ UNCHANGED <<Profiles, Contracts, Jobs, req>>

\* pay: Job.findOne resolves; not-found and balance checks.
PayFindJob(r) ==
  /\ Listening
  /\ pc[r] = "findJob"
  /\ \E fault \in FaultChoices :
       IF fault
         THEN Hang(r)
         ELSE LET j == JobFindOnePayable(Jobs, Contracts, Profiles, profile[r].id, req[r].job_id)
                  check == PayCheck(profile[r], j)
              IN IF check # NoRes
                   THEN Finish(r, check)
                   ELSE /\ pc' = [pc EXCEPT ![r] = "transaction"]
                        /\ job' = [job EXCEPT ![r] = j]
                        /\ UNCHANGED <<profile, res>>
  /\ UNCHANGED <<Profiles, Contracts, Jobs, req>>

\* pay: the transaction commits, or one of its updates throws.
PayTransact(r) ==
  /\ Listening
  /\ pc[r] = "transaction"
  /\ \E failAt \in FailAtChoices :
       LET t == PayTransaction(Profiles, Jobs, profile[r], job[r], Now, failAt)
       IN /\ Profiles' = t.Profiles
          /\ Jobs' = t.Jobs
          /\ IF t.committed
               THEN /\ pc' = [pc EXCEPT ![r] = "findByPk"]
                    /\ UNCHANGED <<profile, job, res>>
               ELSE Finish(r, Resp(500, "Payment failed"))
  /\ UNCHANGED <<Contracts, req>>

\* pay: Job.findByPk resolves and the job is returned; it is inside the try.
PayReturnJob(r) ==
  /\ Listening
  /\ pc[r] = "findByPk"
  /\ \E fault \in FaultChoices :
       IF fault
         THEN Finish(r, Resp(500, "Payment failed"))
         ELSE Finish(r, RespJob(JobFindByPk(Jobs, req[r].job_id)))
  /\ UNCHANGED <<Profiles, Contracts, Jobs, req>>

\* deposit with the cap applied to the amount counted once more for each
\* deposit already answered for the same client.
DepositJobsToPayCumulative(r) ==
  /\ Listening
  /\ pc[r] = "jobsToPay"
  /\ \E fault \in FaultChoices :
       IF fault
         THEN Hang(r)
         ELSE LET before == { k \in Reqs : /\ pc[k] = "done" /\ res[k].status = 200
                                           /\ req[k].kind = "deposit"
                                           /\ req[k].profile_id = req[r].profile_id }
                  check == DepositCheck(req[r].amount * (1 + Cardinality(before)),
                                        TotalToPay(Jobs, Contracts, profile[r].id))
              IN IF check # NoRes
                   THEN Finish(r, check)
                   ELSE /\ pc' = [pc EXCEPT ![r] = "update"]
                        /\ UNCHANGED <<profile, job, res>>
  /\ UNCHANGED <<Profiles, Contracts, Jobs, req>>

\* deposit with the balance written before the cap is checked.
DepositJobsToPayAfterUpdate(r) ==
  /\ Listening
  /\ pc[r] = "jobsToPay"
  /\ \E fault \in FaultChoices :
       IF fault
         THEN Hang(r) /\ UNCHANGED Profiles
         ELSE LET check == DepositCheck(req[r].amount, TotalToPay(Jobs, Contracts, profile[r].id))
              IN /\ Profiles' = [Profiles EXCEPT ![profile[r].id].balance =
                                   DepositBalance(profile[r], req[r].amount)]
                 /\ IF check # NoRes
                      THEN Finish(r, check)
                      ELSE /\ pc' = [pc EXCEPT ![r] = "update"]
                           /\ UNCHANGED <<profile, job, res>>
  /\ UNCHANGED <<Contracts, Jobs, req>>

\* deposit: Job.findAll resolves; the cap check.
DepositJobsToPay(r) ==
  /\ Listening
  /\ pc[r] = "jobsToPay"
  /\ \E fault \in FaultChoices :
       IF fault
         THEN Hang(r)
         ELSE LET check == DepositCheck(req[r].amount, TotalToPay(Jobs, Contracts, profile[r].id))
              IN IF check # NoRes
                   THEN Finish(r, check)
                   ELSE /\ pc' = [pc EXCEPT ![r] = "update"]
                        /\ UNCHANGED <<profile, job, res>>
  /\ UNCHANGED <<Profiles, Contracts, Jobs, req>>

\* deposit: profile.update resolves, or throws inside the try.
DepositUpdate(r) ==
  /\ Listening
  /\ pc[r] = "update"
  /\ \E fault \in FaultChoices :
       IF fault
         THEN /\ Finish(r, Resp(500, "Deposit failed"))
              /\ UNCHANGED Profiles
         ELSE /\ Profiles' = [Profiles EXCEPT ![profile[r].id].balance =
                                 DepositBalance(profile[r], req[r].amount)]
              /\ Finish(r, RespBalance(DepositBalance(profile[r], req[r].amount)))
  /\ UNCHANGED <<Contracts, Jobs, req>>

\* GET /contracts/:id: Contract.findOne resolves; not-found and access checks.
ContractsGetById(r) ==
  /\ Listening
  /\ pc[r] = "findContract"
  /\ \E fault \in FaultChoices :
       IF fault
         THEN Hang(r)
         ELSE Finish(r, ContractById(Contracts, profile[r], req[r].id))
  /\ UNCHANGED <<Profiles, Contracts, Jobs, req>>

\* GET /contracts: Contract.findAll resolves.
ContractsGetAll(r) ==
  /\ Listening
  /\ pc[r] = "findContracts"
  /\ \E fault \in FaultChoices :
       IF fault
         THEN Hang(r)
         ELSE Finish(r, RespContracts(ContractFindAll(Contracts, profile[r])))
  /\ UNCHANGED <<Profiles, Contracts, Jobs, req>>

\* GET /jobs/unpaid writing the rows it lists: every listed job is saved
\* as paid.
JobsGetUnpaidSaving(r) ==
  /\ Listening
  /\ pc[r] = "findUnpaid"
  /\ \E fault \in FaultChoices :
       IF fault
         THEN Hang(r) /\ UNCHANGED Jobs
         ELSE LET rows == JobFindAllUnpaid(Jobs, Contracts, profile[r])
              IN /\ Finish(r, RespJobs(rows))
                 /\ Jobs' = [j \in DOMAIN Jobs |->
                               IF \E row \in rows : row.id = j
                                 THEN [Jobs[j] EXCEPT !.paid = TRUE]
                                 ELSE Jobs[j]]
  /\ UNCHANGED <<Profiles, Contracts, req>>

\* GET /jobs/unpaid: Job.findAll resolves.
JobsGetUnpaid(r) ==
  /\ Listening
  /\ pc[r] = "findUnpaid"
  /\ \E fault \in FaultChoices :
       IF fault
         THEN Hang(r)
         ELSE Finish(r, RespJobs(JobFindAllUnpaid(Jobs, Contracts, profile[r])))
  /\ UNCHANGED <<Profiles, Contracts, Jobs, req>>

\* GET /admin/best-profession: the grouped Job.findAll resolves.
AdminBestProfession(r) ==
  /\ Listening
  /\ pc[r] = "bestProfession"
  /\ \E fault \in FaultChoices :
       IF fault
         THEN Hang(r)
         ELSE \E response \in BestProfessionResults(Jobs, Contracts, Profiles,
                                                    req[r].start, req[r].end) :
                Finish(r, response)
  /\ UNCHANGED <<Profiles, Contracts, Jobs, req>>

\* GET /admin/best-clients: the grouped Job.findAll resolves.
AdminBestClients(r) ==
  /\ Listening
  /\ pc[r] = "bestClients"
  /\ \E fault \in FaultChoices :
       IF fault
         THEN Hang(r)
         ELSE \E response \in BestClientsResults(Jobs, Contracts, req[r].start,
                                                 req[r].end, req[r].limit) :
                Finish(r, response)
  /\ UNCHANGED <<Profiles, Contracts, Jobs, req>>

Next ==
  \E r \in Reqs :
    \/ GetProfileRouter(r)
    \/ GetProfileRoute(r)
    \/ PayFindJob(r)
    \/ PayTransact(r)
    \/ PayReturnJob(r)
    \/ DepositJobsToPay(r)
    \/ DepositUpdate(r)

Spec == Init /\ [][Next]_vars

\* What the event loop runs for request r once it has arrived: the
\* continuation of whichever await it is suspended at.
Continue(r) ==
  \/ GetProfileRoute(r)
  \/ PayFindJob(r)
  \/ PayTransact(r)
  \/ PayReturnJob(r)
  \/ DepositJobsToPay(r)
  \/ DepositUpdate(r)

\* Every store operation settles and the event loop runs every settled
\* continuation: no request that can continue waits for ever.
FairSpec == Spec /\ \A r \in Reqs : WF_vars(Continue(r))

\* The same handlers behind requests to every endpoint of the v1 router.
ApiNext ==
  \E r \in Reqs :
    \/ GetProfileRouterAnyEndpoint(r)
    \/ GetProfileRoute(r)
    \/ PayFindJob(r)
    \/ PayTransact(r)
    \/ PayReturnJob(r)
    \/ DepositJobsToPay(r)
    \/ DepositUpdate(r)

ApiSpec == Init /\ [][ApiNext]_vars

\* Every handler of the v1 router behind authenticated requests.
ReadNext ==
  \E r \in Reqs :
    \/ GetProfileRouterReads(r)
    \/ GetProfileRoute(r)
    \/ PayFindJob(r)
    \/ PayTransact(r)
    \/ PayReturnJob(r)
    \/ DepositJobsToPay(r)
    \/ DepositUpdate(r)
    \/ ContractsGetById(r)
    \/ ContractsGetAll(r)
    \/ JobsGetUnpaid(r)
    \/ AdminBestProfession(r)
    \/ AdminBestClients(r)

ReadSpec == Init /\ [][ReadNext]_vars

\* The admin reports next to the payments they report on.
ReportNext ==
  \E r \in Reqs :
    \/ GetProfileRouterReports(r)
    \/ GetProfileRoute(r)
    \/ PayFindJob(r)
    \/ PayTransact(r)
    \/ PayReturnJob(r)
    \/ AdminBestProfession(r)
    \/ AdminBestClients(r)

ReportSpec == Init /\ [][ReportNext]_vars

\* ------------------------------------------------------------ startServer
\* What app.listen(port) does before it returns: it returns the server, or
\* throws (a port option Node rejects).  A port that is taken is not known
\* yet: Node reports it later, as the 'error' event of the returned server.
ListenOutcomes == {"returned", "ERR_SOCKET_BAD_PORT"}

\* await sequelize.sync(): startServer goes on to the loop, or the outer
\* catch exits the process.
Sync ==
  /\ boot.pc = "sync"
  /\ \E ok \in BOOLEAN :
       boot' = IF ok THEN [boot EXCEPT !.pc = "loop"]
                      ELSE [boot EXCEPT !.pc = "exited"]
  /\ UNCHANGED <<Profiles, Contracts, Jobs, pc, req, profile, job, res, inUse>>

\* One pass of while (attempts < maxAttempts) and, when the loop is left,
\* the code after it up to the end of startServer.
Listen ==
  /\ boot.pc = "loop"
  /\ IF boot.attempts < maxAttempts
       THEN \E outcome \in ListenOutcomes :
              boot' = CASE outcome = "returned" ->
                              [boot EXCEPT !.server = "pending", !.pc = "started"]
                         [] outcome = "EADDRINUSE" ->
                              [boot EXCEPT !.currentPort = @ + 1, !.attempts = @ + 1]
                         [] OTHER -> [boot EXCEPT !.pc = "exited"]
       ELSE boot' = [boot EXCEPT !.pc = "exited"]
  /\ UNCHANGED <<Profiles, Contracts, Jobs, pc, req, profile, job, res, inUse>>

\* The bind settles after startServer has returned: 'listening', or the
\* 'error' event, which the handler startServer added only logs.
ListenSettles ==
  /\ boot.pc = "started" /\ boot.server = "pending"
  /\ boot' = [boot EXCEPT !.server = IF boot.currentPort \in inUse
                                         THEN "error" ELSE "listening"]
  /\ UNCHANGED <<Profiles, Contracts, Jobs, pc, req, profile, job, res, inUse>>

\* startServer() is called with any of the ports from PORT on taken.
StartInit ==
  /\ Seeded
  /\ boot = [pc |-> "sync", currentPort |-> PORT, attempts |-> 0, server |-> "undefined"]
  /\ inUse \in SUBSET (PORT .. PORT + MaxPorts - 1)

StartNext ==
  \/ Sync
  \/ Listen
  \/ ListenSettles

StartSpec == StartInit /\ [][StartNext]_vars

TypeOK ==
  /\ DOMAIN Profiles = DOMAIN SeedProfiles
  /\ DOMAIN Jobs = DOMAIN SeedJobs
  /\ \A r \in Reqs : pc[r] \in {"idle", "getProfile", "findJob", "transaction",
                                "findByPk", "jobsToPay", "update", "findContract",
                                "findContracts", "findUnpaid", "bestProfession",
                                "bestClients", "done", "hung"}
  /\ Cardinality(Faulted) <= MaxFaults

\* =============================================================== claims
Done(r) == pc[r] = "done"
PayOK(r) == Done(r) /\ req[r].kind = "pay" /\ res[r].status = 200
DepositOK(r) == Done(r) /\ req[r].kind = "deposit" /\ res[r].status = 200

\* The step of request r in which its transaction commits.
Commits(r) == pc[r] = "transaction" /\ pc'[r] = "findByPk"
\* The step of request r in which its transaction fails.
TransactionFails(r) == pc[r] = "transaction" /\ pc'[r] = "done"
\* The step of request r in which its deposit is written.
DepositApplies(r) == pc[r] = "update" /\ pc'[r] = "done" /\ res'[r].status = 200

RECURSIVE SumOver(_, _)
SumOver(f, S) ==
  IF S = {} THEN 0
  ELSE LET x == CHOOSE y \in S : TRUE
       IN f[x] + SumOver(f, S \ {x})

PriceOf(j) == IF j \in DOMAIN SeedJobs THEN SeedJobs[j].price ELSE 0
ContractorOf(j) == SeedContracts[SeedJobs[j].ContractId].ContractorId

\* What the successful request r is meant to add to the balance of p.
Delta(r, p) ==
  IF DepositOK(r)
    THEN (IF req[r].profile_id = p THEN req[r].amount ELSE 0)
    ELSE IF PayOK(r)
      THEN (IF req[r].profile_id = p THEN 0 - PriceOf(req[r].job_id) ELSE 0)
           + (IF ContractorOf(req[r].job_id) = p THEN PriceOf(req[r].job_id) ELSE 0)
      ELSE 0

TotalBalance(P) == SumOver([p \in DOMAIN P |-> P[p].balance], DOMAIN P)
DepositedBy(c) ==
  SumOver([r \in Reqs |-> IF DepositOK(r) /\ req[r].profile_id = c THEN req[r].amount ELSE 0], Reqs)
TotalDeposited ==
  SumOver([r \in Reqs |-> IF DepositOK(r) THEN req[r].amount ELSE 0], Reqs)

\* A job the client c may pay, as the store stands.
Eligible(c, j) ==
  /\ j \in DOMAIN Jobs
  /\ ~Jobs[j].paid
  /\ Contracts[Jobs[j].ContractId].ClientId = c
  /\ Contracts[Jobs[j].ContractId].status = "in_progress"

\* C1: no two pay requests for the same Job both succeed: of two concurrent
\* requests exactly one is answered 200 and the other not found.
C1_AtMostOncePayment ==
  \A r1, r2 \in Reqs :
    (r1 # r2 /\ PayOK(r1) /\ PayOK(r2)) => req[r1].job_id # req[r2].job_id

\* C2: no lost updates: once every request has been answered, and a deposit
\* was among the successful ones, every balance is its initial value plus
\* the deltas of the successful requests.
C2_NoLostUpdates ==
  (InFlight = {} /\ Faulted = {} /\ \E r \in Reqs : DepositOK(r)) =>
    \A p \in DOMAIN Profiles :
      Profiles[p].balance =
        SeedProfiles[p].balance + SumOver([r \in Reqs |-> Delta(r, p)], Reqs)

\* C3: conservation: the commit of a payment leaves the sum of the payer's
\* and the contractor's balance as it was.
C3_Conservation ==
  [][\A r \in Reqs : Commits(r) =>
       Profiles'[profile[r].id].balance + Profiles'[job[r].ContractorId].balance
         = Profiles[profile[r].id].balance + Profiles[job[r].ContractorId].balance]_vars

\* C4: ledger: the sum of all balances is the initial sum plus the amounts
\* of the successful deposits.
C4_Ledger ==
  TotalBalance(Profiles) = TotalBalance(SeedProfiles) + TotalDeposited

C6_NoDoubleSpend ==
  \A r1, r2 \in Reqs :
    (/\ r1 # r2
     /\ PayOK(r1) /\ PayOK(r2)
     /\ req[r1].profile_id = req[r2].profile_id
     /\ req[r1].job_id # req[r2].job_id)
    => PriceOf(req[r1].job_id) + PriceOf(req[r2].job_id)
         <= SeedProfiles[req[r1].profile_id].balance + DepositedBy(req[r1].profile_id)

\* C7: a deposit that is written is at most 25% of the client's totalOwed
\* as the store stands when it is written.
C7_CapAtUpdate ==
  [][\A r \in Reqs : DepositApplies(r) =>
       4 * req[r].amount <= TotalToPay(Jobs, Contracts, req[r].profile_id)]_vars

\* C8: when an update of the transaction fails, no row of the store changes
\* and the request is answered 500 'Payment failed'.
C8_AtomicOnFailure ==
  [][\A r \in Reqs : TransactionFails(r) =>
       /\ Profiles' = Profiles
       /\ Jobs' = Jobs
       /\ Contracts' = Contracts
       /\ res'[r] = Resp(500, "Payment failed")]_vars

\* A payment that passed its preconditions was answered 500 and its Job is
\* still unpaid: the transaction failed.
C8_Witness ==
  \E r \in Reqs :
    /\ Done(r) /\ req[r].kind = "pay"
    /\ res[r] = Resp(500, "Payment failed")
    /\ ~Jobs[req[r].job_id].paid
    /\ Profiles = SeedProfiles

\* C9: the commit of a payment takes the price from the payer's balance,
\* adds it to the contractor's, and marks the Job paid with a paymentDate;
\* the Job returned is the updated one.
C9_PayEffect ==
  [][\A r \in Reqs :
       /\ Commits(r) =>
            /\ Profiles'[profile[r].id].balance = Profiles[profile[r].id].balance - job[r].price
            /\ Profiles'[job[r].ContractorId].balance
                 = Profiles[job[r].ContractorId].balance + job[r].price
            /\ Jobs'[job[r].id].paid
            /\ Jobs'[job[r].id].paymentDate # NoDate
       /\ (pc[r] = "findByPk" /\ pc'[r] = "done" /\ res'[r].status = 200) =>
            /\ res'[r].job.id = req[r].job_id
            /\ res'[r].job.paid
            /\ res'[r].job.paymentDate # NoDate]_vars

NotFound == Resp(404, "Job not found or not available for payment")
PayForbidden == Resp(403, "Only clients can pay for jobs")
MissingHeader == Resp(401, "Missing profile_id in headers")
UnknownProfile == Resp(401, "Unauthorized: profile not found")

\* The step of request r in which its job lookup resolves.
LooksUp(r) == pc[r] = "findJob" /\ pc'[r] \notin {"findJob", "hung"}

ArrivedAfterPaid(r, j) ==
  /\ j \in DOMAIN Jobs
  /\ Jobs[j].paid
  /\ Jobs[j].paymentDate < ArrivalDate(r)

C13_PaidOnlyByOwningClient ==
  [][\A j \in DOMAIN Jobs :
       (~Jobs[j].paid /\ Jobs'[j].paid) =>
         \E r \in Reqs :
           /\ Commits(r)
           /\ req[r].kind = "pay" /\ req[r].job_id = j
           /\ req[r].profile_id \in DOMAIN Profiles
           /\ Profiles[req[r].profile_id].type = "client"
           /\ Contracts[Jobs[j].ContractId].ClientId = req[r].profile_id
           /\ Contracts[Jobs[j].ContractId].status = "in_progress"]_vars

\* Client 2 has paid its Job, and client 1's request for a Job under a new
\* Contract has ended with that Job still unpaid.
C13_Witness ==
  \E r1, r2 \in Reqs :
    /\ PayOK(r1) /\ req[r1] = PayReq(2, 3) /\ Jobs[3].paid
    /\ Done(r2) /\ req[r2] = PayReq(1, 4) /\ ~Jobs[4].paid

Insufficient == Resp(400, "Insufficient balance")
CapExceeded == Resp(400, "Cannot deposit more than 25% of jobs to pay")

\* totalOwed of client c as the store stands: the prices of its unpaid Jobs
\* under in_progress Contracts.
TotalOwed(c) ==
  SumOver([j \in DOMAIN Jobs |-> IF Eligible(c, j) THEN Jobs[j].price ELSE 0], DOMAIN Jobs)

\* C14: a pay request of the owning client on an eligible Job is answered
\* 400 'Insufficient balance' exactly when the payer's balance is below the
\* price, and then nothing changes; a payer whose balance equals the price
\* is left with 0 by the commit.
C14_InsufficientFunds ==
  [][\A r \in Reqs :
       LET c == req[r].profile_id
           j == req[r].job_id
       IN /\ (LooksUp(r) /\ Eligible(c, j)) =>
               /\ (Profiles[c].balance < Jobs[j].price)
                    <=> (pc'[r] = "done" /\ res'[r] = Insufficient)
               /\ (res'[r] = Insufficient) => (Profiles' = Profiles /\ Jobs' = Jobs)
          /\ (Commits(r) /\ Profiles[c].balance = Jobs[j].price) =>
               Profiles'[c].balance = 0]_vars

C16_DepositEffect ==
  [][\A r \in Reqs : DepositApplies(r) =>
       /\ Profiles'[req[r].profile_id].balance
            = Profiles[req[r].profile_id].balance + req[r].amount
       /\ res'[r].balance = Profiles'[req[r].profile_id].balance]_vars

AmountRequired == Resp(400, "Amount is required")
AmountNegative == Resp(400, "Amount cannot be negative")
NotClient == Resp(403, "Only clients can deposit money")
NotSelf == Resp(403, "You can only deposit to your own account")

\* The step of request r in which an authenticated deposit runs the checks
\* that open its handler.
DepositValidates(r) ==
  /\ pc[r] = "getProfile" /\ pc'[r] \notin {"getProfile", "hung"}
  /\ req[r].kind = "deposit"
  /\ req[r].profile_id \in DOMAIN Profiles

C18_ZeroAmountPasses ==
  \A r \in Reqs :
    (/\ Done(r) /\ req[r].kind = "deposit" /\ req[r].amount = 0
     /\ req[r].profile_id \in DOMAIN Profiles
     /\ Profiles[req[r].profile_id].type = "client"
     /\ req[r].userId = req[r].profile_id)
      => res[r] \notin {AmountRequired, AmountNegative}

Unauthenticated(q) == q.profile_id = NoHeader \/ q.profile_id \notin DOMAIN Profiles

\* C20: on every endpoint, a request without a profile_id header or with
\* one that names no Profile is answered 401 by the getProfile of the router
\* in the step in which it arrives, with the store left as it was, and never
\* stands at any await of a route.
C20_UnauthenticatedFirst ==
  [][\A r \in Reqs :
       /\ (pc[r] = "idle" /\ pc'[r] \notin {"idle", "hung"} /\ Unauthenticated(req'[r])) =>
            /\ pc'[r] = "done"
            /\ res'[r] = IF req'[r].profile_id = NoHeader
                           THEN MissingHeader ELSE UnknownProfile
            /\ Profiles' = Profiles /\ Contracts' = Contracts /\ Jobs' = Jobs
       /\ (pc'[r] \notin {"idle", "done", "hung"}) => ~Unauthenticated(req'[r])]_vars

\* An admin request without header and a contracts request with an unknown
\* profile_id were both answered 401, the store being as seeded.
C20_Witness ==
  \E r1, r2 \in Reqs :
    /\ Done(r1) /\ req[r1] = ReadReq("bestProfession", NoHeader) /\ res[r1] = MissingHeader
    /\ Done(r2) /\ req[r2] = ReadReq("contracts", UnknownId) /\ res[r2] = UnknownProfile
    /\ Profiles = SeedProfiles /\ Contracts = SeedContracts /\ Jobs = SeedJobs

\* C21: every pay or deposit request that has arrived is eventually
\* answered, also when one of its store operations fails.
C21_EveryRequestAnswered ==
  \A r \in Reqs : (pc[r] # "idle") ~> (pc[r] = "done" /\ res[r] # NoRes)

Rejections == {400, 403, 404}

\* C22: a pay or deposit request that ends with a rejection has changed no
\* Profile and no Job: the step that rejects writes nothing, no step before
\* the transaction or the balance update writes anything, and a request
\* that has reached one of these two is never rejected.
C22_RejectionChangesNothing ==
  [][\A r \in Reqs :
       /\ (pc'[r] # pc[r] /\ pc'[r] = "done" /\ res'[r].status \in Rejections) =>
            (Profiles' = Profiles /\ Jobs' = Jobs)
       /\ (pc'[r] # pc[r] /\ pc[r] \in {"idle", "getProfile", "findJob", "jobsToPay"}) =>
            (Profiles' = Profiles /\ Jobs' = Jobs)
       /\ (pc[r] \in {"transaction", "findByPk", "update"} /\ pc'[r] = "done") =>
            res'[r].status \notin Rejections]_vars

\* A deposit above the cap and a payment of another client's Job have been
\* rejected, and the store is as seeded.
C22_Witness ==
  \E r1, r2 \in Reqs :
    /\ Done(r1) /\ req[r1] = DepositReq(1, 1, 4) /\ res[r1] = CapExceeded
    /\ Done(r2) /\ req[r2] = PayReq(1, 3) /\ res[r2] = NotFound
    /\ Profiles = SeedProfiles /\ Jobs = SeedJobs

\* C23: no step changes a Contract; a step of a request for a contract, the
\* contract list, the unpaid jobs, best-profession or best-clients changes
\* no Profile and no Job; and a step that changes a Profile or a Job is the
\* commit of a payment or the write of a deposit.
C23_OnlyPayAndDepositWrite ==
  [][/\ Contracts' = Contracts
     /\ \A r \in Reqs :
          (pc'[r] # pc[r] /\ req'[r].kind \in ReadEndpoints) =>
            (Profiles' = Profiles /\ Jobs' = Jobs)
     /\ (Profiles' # Profiles \/ Jobs' # Jobs) =>
          \E r \in Reqs : Commits(r) \/ DepositApplies(r)]_vars

\* The unpaid jobs were listed after a payment had changed the store, the
\* Contracts being as seeded.
C23_Witness ==
  \E r1, r2 \in Reqs :
    /\ PayOK(r1)
    /\ Done(r2) /\ req[r2].kind = "unpaid" /\ res[r2].status = 200
    /\ Jobs # SeedJobs /\ Profiles # SeedProfiles
    /\ Contracts = SeedContracts

\* C24: the commit of a payment changes only the balance of the payer, the
\* balance of the contractor of the Job's Contract, and paid and
\* paymentDate of that Job; the write of a deposit changes only the balance
\* of the requester; no other step of a pay or deposit request changes
\* anything.
C24_Frame ==
  [][\A r \in Reqs :
       LET c == req[r].profile_id
           j == req[r].job_id
       IN /\ Commits(r) =>
               LET k == Contracts[Jobs[j].ContractId].ContractorId
               IN /\ \A p \in DOMAIN Profiles \ {c, k} : Profiles'[p] = Profiles[p]
                  /\ \A p \in {c, k} :
                       Profiles'[p] = [Profiles[p] EXCEPT !.balance = Profiles'[p].balance]
                  /\ \A i \in DOMAIN Jobs \ {j} : Jobs'[i] = Jobs[i]
                  /\ Jobs'[j] = [Jobs[j] EXCEPT !.paid = Jobs'[j].paid,
                                                !.paymentDate = Jobs'[j].paymentDate]
                  /\ Contracts' = Contracts
          /\ DepositApplies(r) =>
               /\ \A p \in DOMAIN Profiles \ {c} : Profiles'[p] = Profiles[p]
               /\ Profiles'[c] = [Profiles[c] EXCEPT !.balance = Profiles'[c].balance]
               /\ Jobs' = Jobs /\ Contracts' = Contracts
          /\ (pc'[r] # pc[r] /\ ~Commits(r) /\ ~DepositApplies(r)) =>
               (Profiles' = Profiles /\ Jobs' = Jobs /\ Contracts' = Contracts)]_vars

\* Client 1 has paid Job 1 and deposited 3: only the balances of client 1
\* and contractor 3 and the paid flag and date of Job 1 differ from the seed.
C24_Witness ==
  \E r1, r2 \in Reqs :
    /\ PayOK(r1) /\ req[r1] = PayReq(1, 1)
    /\ DepositOK(r2) /\ req[r2] = DepositReq(1, 1, 3)
    /\ Jobs[1].paid /\ ~Jobs[2].paid
    /\ Profiles[1].balance # SeedProfiles[1].balance
    /\ Profiles[3].balance = SeedProfiles[3].balance + 4
    /\ \A p \in {2, 4, 5} : Profiles[p] = SeedProfiles[p]

\* C25: a Job that is paid never changes again (paid stays true; price,
\* Contract reference and paymentDate are frozen), and a Job has a
\* paymentDate exactly when it is paid.
C25_PaidJobFrozen ==
  [][\A j \in DOMAIN Jobs :
       /\ Jobs[j].paid => Jobs'[j] = Jobs[j]
       /\ Jobs'[j].paid <=> Jobs'[j].paymentDate # NoDate]_vars

\* C26: a client's pay request on an existing unpaid Job of another
\* client's Contract is answered 403 'Access denied'.
C26_OtherClientsJobDenied ==
  \A r \in Reqs :
    (/\ Done(r) /\ req[r].kind = "pay"
     /\ req[r].profile_id \in DOMAIN Profiles
     /\ Profiles[req[r].profile_id].type = "client"
     /\ req[r].job_id \in DOMAIN Jobs
     /\ ~Jobs[req[r].job_id].paid
     /\ Contracts[Jobs[req[r].job_id].ContractId].ClientId # req[r].profile_id)
      => res[r] = Resp(403, "Access denied")

\* C27: a client's deposit of a positive amount to a user id that names no
\* Profile is answered 404.
C27_UnknownTargetNotFound ==
  \A r \in Reqs :
    (/\ Done(r) /\ req[r].kind = "deposit"
     /\ req[r].profile_id \in DOMAIN Profiles
     /\ Profiles[req[r].profile_id].type = "client"
     /\ req[r].userId \notin DOMAIN Profiles
     /\ req[r].amount # NoAmount /\ req[r].amount > 0)
      => res[r].status = 404

\* The step in which the handler of request r, suspended at the given
\* await, sends its response.
Answers(r, await) == pc[r] = await /\ pc'[r] = "done"

\* The party of Contract k that a Profile of the requester's role must be.
PartyOf(k, c) ==
  IF Profiles[c].type = "client" THEN Contracts[k].ClientId ELSE Contracts[k].ContractorId

\* C28: a request for a contract by id is answered 404 when no Contract has
\* the id; otherwise with the Contract when the requester is its client
\* (as a client) or its contractor (as a contractor), and with 403 'Access
\* denied' in every other case.
C28_ContractAccess ==
  [][\A r \in Reqs :
       Answers(r, "findContract") =>
         LET c == req[r].profile_id
             id == req[r].id
         IN IF id \notin DOMAIN Contracts
              THEN res'[r] = Resp(404, "Contract not found")
              ELSE IF \/ Profiles[c].type = "client" /\ c = Contracts[id].ClientId
                      \/ Profiles[c].type = "contractor" /\ c = Contracts[id].ContractorId
                THEN /\ res'[r].status = 200
                     /\ res'[r].contract.id = id
                     /\ res'[r].contract.status = Contracts[id].status
                     /\ res'[r].contract.ClientId = Contracts[id].ClientId
                     /\ res'[r].contract.ContractorId = Contracts[id].ContractorId
                ELSE res'[r] = Resp(403, "Access denied")]_vars

\* Contractor 3 was given its Contract 1, and client 1 was denied Contract
\* 2 of client 2.
C28_Witness ==
  \E r1, r2 \in Reqs :
    /\ Done(r1) /\ req[r1] = ContractReq(3, 1)
    /\ res[r1].status = 200 /\ res[r1].contract.id = 1
    /\ Done(r2) /\ req[r2] = ContractReq(1, 2)
    /\ res[r2] = Resp(403, "Access denied")

\* C29: the contract list of a Profile is exactly the Contracts that are
\* not terminated and have the Profile as client (for a client) or as
\* contractor (for a contractor).
C29_ContractList ==
  [][\A r \in Reqs :
       Answers(r, "findContracts") =>
         LET c == req[r].profile_id
         IN /\ res'[r].status = 200
            /\ { x.id : x \in res'[r].contracts } =
                 { k \in DOMAIN Contracts :
                     Contracts[k].status # "terminated" /\ PartyOf(k, c) = c }
            /\ \A x \in res'[r].contracts :
                 /\ x.status = Contracts[x.id].status
                 /\ x.ClientId = Contracts[x.id].ClientId
                 /\ x.ContractorId = Contracts[x.id].ContractorId]_vars

\* Client 1 was listed its in_progress and its new Contract without the
\* terminated one, and the contractor without contracts an empty list.
C29_Witness ==
  \E r1, r2 \in Reqs :
    /\ Done(r1) /\ req[r1] = ReadReq("contracts", 1)
    /\ { x.id : x \in res[r1].contracts } = {1, 3}
    /\ Contracts[4].ClientId = 1 /\ Contracts[4].status = "terminated"
    /\ Done(r2) /\ req[r2] = ReadReq("contracts", 5)
    /\ res[r2].status = 200 /\ res[r2].contracts = {}

\* C30: the unpaid-jobs list of a Profile is exactly the Jobs that are not
\* paid, as the store stands, under in_progress Contracts that have the
\* Profile as client (for a client) or as contractor (for a contractor).
C30_UnpaidList ==
  [][\A r \in Reqs :
       Answers(r, "findUnpaid") =>
         LET c == req[r].profile_id
         IN /\ res'[r].status = 200
            /\ { x.id : x \in res'[r].jobs } =
                 { j \in DOMAIN Jobs :
                     /\ ~Jobs[j].paid
                     /\ Contracts[Jobs[j].ContractId].status = "in_progress"
                     /\ PartyOf(Jobs[j].ContractId, c) = c }
            /\ \A x \in res'[r].jobs :
                 /\ x.paid = FALSE /\ x.paymentDate = NoDate
                 /\ x.price = Jobs[x.id].price
                 /\ x.ContractId = Jobs[x.id].ContractId]_vars

\* After client 1 paid Job 1, contractor 3 was listed Jobs 2 and 3 only.
C30_Witness ==
  \E r1, r2 \in Reqs :
    /\ PayOK(r1) /\ req[r1] = PayReq(1, 1) /\ r1 < r2
    /\ Done(r2) /\ req[r2] = ReadReq("unpaid", 3)
    /\ res[r2].status = 200
    /\ { x.id : x \in res[r2].jobs } = {2, 3}

NoData == Resp(404, "No data found for the specified period")
DatesRequired == Resp(400, "Start and end dates are required")

\* Whether Job j is paid with a paymentDate in [start, end], as the store
\* stands.
PaidIn(j, start, end) ==
  /\ Jobs[j].paid
  /\ start <= Jobs[j].paymentDate /\ Jobs[j].paymentDate <= end

\* What client c paid in [start, end], and the clients that paid.
ClientPaid(c, start, end) ==
  SumOver([j \in DOMAIN Jobs |->
             IF PaidIn(j, start, end) /\ Contracts[Jobs[j].ContractId].ClientId = c
               THEN Jobs[j].price ELSE 0], DOMAIN Jobs)
Payers(start, end) ==
  { Contracts[Jobs[j].ContractId].ClientId : j \in { i \in DOMAIN Jobs : PaidIn(i, start, end) } }

\* The step in which an authenticated request of the given kind runs the
\* checks that open its handler.
Validates(r, kind) ==
  /\ pc[r] = "getProfile" /\ pc'[r] \notin {"getProfile", "hung"}
  /\ req[r].kind = kind

\* C31: best-clients without start or end is answered 400; otherwise 404
\* when no Job was paid in [start, end], and else the list of at most limit
\* clients (2 without a limit), each a different client with the sum of the
\* prices of its Jobs paid in the period, in descending order of the sum,
\* no client left out having paid more than a listed one.
C31_BestClients ==
  [][\A r \in Reqs :
       /\ Validates(r, "bestClients") =>
            IF req[r].start = NoDate \/ req[r].end = NoDate
              THEN pc'[r] = "done" /\ res'[r] = DatesRequired
              ELSE pc'[r] = "bestClients"
       /\ Answers(r, "bestClients") =>
            LET start == req[r].start
                end == req[r].end
                payers == Payers(start, end)
                limit == IF req[r].limit = NoLimit THEN 2 ELSE req[r].limit
                list == res'[r].clients
                listed == { list[i].id : i \in 1..Len(list) }
            IN IF payers = {}
                 THEN res'[r] = NoData
                 ELSE /\ res'[r].status = 200
                      /\ Len(list) <= limit
                      /\ Len(list) = limit \/ listed = payers
                      /\ \A i \in 1..Len(list) :
                           /\ list[i].id \in payers
                           /\ list[i].paid = ClientPaid(list[i].id, start, end)
                      /\ \A i, j \in 1..Len(list) :
                           i < j => (list[i].id # list[j].id /\ list[i].paid >= list[j].paid)
                      /\ \A c \in payers \ listed : \A i \in 1..Len(list) :
                           ClientPaid(c, start, end) <= list[i].paid]_vars

\* After client 2 paid its Job of price 2, best-clients with limit 1 listed
\* client 1 alone, with the 4 of the Job seeded as paid.
C31_Witness ==
  \E r1, r2 \in Reqs :
    /\ PayOK(r1) /\ req[r1] = PayReq(2, 3)
    /\ Done(r2) /\ req[r2] = AdminReq("bestClients", 1, SeedDate, LastDate, 1)
    /\ res[r2].status = 200
    /\ res[r2].clients = << [id |-> 1, paid |-> 4] >>
    /\ ClientPaid(2, SeedDate, LastDate) = 2

\* The profession of the contractor of the Contract of Job j, and what a
\* profession earned in [start, end].
ProfessionOf(j) == Profiles[Contracts[Jobs[j].ContractId].ContractorId].profession
ProfessionEarned(p, start, end) ==
  SumOver([j \in DOMAIN Jobs |->
             IF PaidIn(j, start, end) /\ ProfessionOf(j) = p
               THEN Jobs[j].price ELSE 0], DOMAIN Jobs)

PaymentFailed == Resp(500, "Payment failed")

\* C33: a pay request is answered 'Payment failed' only when its
\* transaction was rolled back: the step that sends it changes nothing, and
\* it is not sent by a request whose transaction has committed (one
\* suspended at the findByPk that follows the commit).
C33_FailureMeansNotCommitted ==
  [][\A r \in Reqs :
       (/\ req[r].kind = "pay"
        /\ pc[r] # "done" /\ pc'[r] = "done"
        /\ res'[r] = PaymentFailed) =>
         /\ pc[r] # "findByPk"
         /\ Profiles' = Profiles /\ Jobs' = Jobs]_vars

\* Every Contract's client is a Profile of role client and its contractor a
\* Profile of role contractor.
ContractRoles ==
  \A k \in DOMAIN Contracts :
    /\ Contracts[k].ClientId \in DOMAIN Profiles
    /\ Contracts[k].ContractorId \in DOMAIN Profiles
    /\ Profiles[Contracts[k].ClientId].type = "client"
    /\ Profiles[Contracts[k].ContractorId].type = "contractor"

\* C34: in every reachable state, the seeded one included, every Contract
\* has a client as client and a contractor as contractor, every Profile
\* has the role it was seeded with and every Contract the references it
\* was seeded with.
C34_ContractRoles ==
  /\ ContractRoles
  /\ DOMAIN Profiles = DOMAIN SeedProfiles /\ DOMAIN Contracts = DOMAIN SeedContracts
  /\ \A p \in DOMAIN Profiles : Profiles[p].type = SeedProfiles[p].type
  /\ \A k \in DOMAIN Contracts :
       /\ Contracts[k].ClientId = SeedContracts[k].ClientId
       /\ Contracts[k].ContractorId = SeedContracts[k].ContractorId

\* A payment and a deposit have changed balances, and the roles of the
\* parties of every Contract are as required.
C34_Witness ==
  \E r1, r2 \in Reqs :
    /\ PayOK(r1) /\ DepositOK(r2)
    /\ Profiles # SeedProfiles /\ Jobs # SeedJobs
    /\ ContractRoles

\* C35: the write of a deposit leaves totalOwed as it was, and a deposit
\* that repeats an accepted deposit of the same client passes the cap check
\* again as long as none of that client's Jobs has been paid.
C35_CapPerDeposit ==
  [][\A r \in Reqs :
       LET c == req[r].profile_id
       IN /\ DepositApplies(r) => (Jobs' = Jobs /\ Contracts' = Contracts)
          /\ (/\ pc[r] = "jobsToPay" /\ pc'[r] \notin {"jobsToPay", "hung"}
              /\ \E k \in Reqs \ {r} : DepositOK(k) /\ req[k] = req[r]
              /\ \A j \in DOMAIN Jobs :
                   Contracts[Jobs[j].ContractId].ClientId = c => Jobs[j] = SeedJobs[j])
               => pc'[r] = "update"]_vars

\* Client 1, owing 12, has deposited 3 twice: 6 in all, above the 3 that
\* are 25% of what it owes.
C35_Witness ==
  \E r1, r2 \in Reqs :
    /\ r1 < r2
    /\ DepositOK(r1) /\ req[r1] = DepositReq(1, 1, 3)
    /\ DepositOK(r2) /\ req[r2] = DepositReq(1, 1, 3)
    /\ TotalOwed(1) = 12
    /\ 4 * (req[r1].amount + req[r2].amount) > TotalOwed(1)

\* Start-up is over: the process has exited, or the bind has settled.
StartEnded == boot.pc = "exited" \/ (boot.pc = "started" /\ boot.server # "pending")

\* C37: start-up makes at most maxAttempts attempts; when it is over the
\* process has exited or the server listens on the first free port from
\* PORT on, and with PORT taken it has moved on to a later port.
C37_StartUp ==
  /\ boot.attempts <= maxAttempts
  /\ StartEnded =>
       \/ boot.pc = "exited"
       \/ /\ boot.server = "listening"
          /\ boot.currentPort \notin inUse
          /\ \A p \in PORT .. boot.currentPort - 1 : p \in inUse
          /\ PORT \in inUse => boot.attempts >= 1

\* The stores that differ from the present one only in what is not c's: the
\* balances of the other Profiles (b), the status of the other clients'
\* Contracts (s), and the price and paid flag of the Jobs under them (x).
OtherBalances == {0, 9}
OtherStatuses == {"in_progress", "terminated"}
OtherProfiles(c, b) ==
  [p \in DOMAIN Profiles |-> IF p = c THEN Profiles[p] ELSE [Profiles[p] EXCEPT !.balance = b]]
OtherContracts(c, s) ==
  [k \in DOMAIN Contracts |->
     IF Contracts[k].ClientId = c THEN Contracts[k] ELSE [Contracts[k] EXCEPT !.status = s]]
OtherJobs(c, x, b) ==
  [j \in DOMAIN Jobs |->
     IF Contracts[Jobs[j].ContractId].ClientId = c THEN Jobs[j]
     ELSE [Jobs[j] EXCEPT !.paid = x, !.price = b + 1]]

\* C36: when a pay request looks its job up and checks the balance, and
\* when a deposit checks the cap, the answer (or the go-ahead) is the one
\* the same code gives on every store that differs only in other Profiles'
\* balances and other clients' Contracts and Jobs.
C36_NonInterference ==
  [][\A r \in Reqs :
       LET c == req[r].profile_id
       IN /\ (pc[r] = "findJob" /\ pc'[r] \notin {"findJob", "hung"}) =>
               \A b \in OtherBalances, s \in OtherStatuses, x \in BOOLEAN :
                 LET j == JobFindOnePayable(OtherJobs(c, x, b), OtherContracts(c, s),
                                            OtherProfiles(c, b), profile[r].id, req[r].job_id)
                     check == PayCheck(profile[r], j)
                 IN IF check # NoRes
                      THEN pc'[r] = "done" /\ res'[r] = check
                      ELSE pc'[r] = "transaction"
          /\ (pc[r] = "jobsToPay" /\ pc'[r] \notin {"jobsToPay", "hung"}) =>
               \A b \in OtherBalances, s \in OtherStatuses, x \in BOOLEAN :
                 LET check == DepositCheck(req[r].amount,
                                           TotalToPay(OtherJobs(c, x, b), OtherContracts(c, s),
                                                      profile[r].id))
                 IN IF check # NoRes
                      THEN pc'[r] = "done" /\ res'[r] = check
                      ELSE pc'[r] = "update"]_vars

\* Client 2 has paid job 3, so its balance, its Job and the contractor's
\* balance differ from the seed, and a later deposit of client 1 has been
\* decided.
C36_Witness ==
  \E r1, r2 \in Reqs :
    /\ r1 < r2
    /\ PayOK(r1) /\ req[r1].profile_id = 2
    /\ Jobs[3].paid /\ Profiles[2].balance # SeedProfiles[2].balance
    /\ Done(r2) /\ req[r2].kind = "deposit" /\ req[r2].profile_id = 1
    /\ res[r2].status \in {200, 400}

====
